---- MODULE Spec2Model ----
(***************************************************************************)
(* Resume screening pipeline of main.py: text extraction, field extraction *)
(* (skills, experience, name, email), scoring against a job profile, and   *)
(* the batch loop that builds and sorts the result rows.                   *)
(*                                                                         *)
(* Strings are sequences of one-character strings, so that the regular     *)
(* expressions of the source can be modelled position by position.         *)
(* Floating-point scores are kept as exact fractions <<num, den>>; a       *)
(* rounded score is an integer number of tenths (82.5 is 825).             *)
(***************************************************************************)
EXTENDS Integers, Sequences, FiniteSets

VARIABLES
    pc,              \* position of the script (or of the function under study)
    text,            \* input text of a field extraction
    req_skills,      \* JobMatcher.req_skills: set of normalized strings
    min_exp,         \* JobMatcher.min_exp
    candidate,       \* dict returned by ResumeParser.parse (or the record scored)
    outcome,         \* value returned by the function under study
    candidate2,      \* second candidate / second run
    outcome2,        \* second result
    uploaded_files,  \* the batch handed over by st.file_uploader
    i,               \* loop index of the main loop
    results,         \* list of result rows
    errors,          \* st.error reports, one per failed file (its index)
    df               \* the sorted DataFrame rows

vars == << pc, text, req_skills, min_exp, candidate, outcome, candidate2,
           outcome2, uploaded_files, i, results, errors, df >>

None == "none"

(***************************************************************************)
(* Bounds of the model.                                                    *)
(***************************************************************************)
MaxPieces == 3      \* a text is the concatenation of at most this many pieces
MaxDigits == 8      \* longest digit run of a text (integers stay below 2^31)
MaxYears  == 5      \* largest years_experience of an enumerated candidate
MaxFiles  == 2      \* largest batch

(***************************************************************************)
(* Characters.                                                             *)
(***************************************************************************)
LowerChars == <<"a", "b", "c", "d", "e", "f", "g", "h", "i", "j", "k", "l", "m",
                "n", "o", "p", "q", "r", "s", "t", "u", "v", "w", "x", "y", "z">>
UpperChars == <<"A", "B", "C", "D", "E", "F", "G", "H", "I", "J", "K", "L", "M",
                "N", "O", "P", "Q", "R", "S", "T", "U", "V", "W", "X", "Y", "Z">>
DigitChars == <<"0", "1", "2", "3", "4", "5", "6", "7", "8", "9">>

Range(s) == {s[k] : k \in DOMAIN s}

Lowers  == Range(LowerChars)
Uppers  == Range(UpperChars)
Letters == Lowers \cup Uppers
Digits  == Range(DigitChars)
Spaces  == {" ", "\n", "\t"}
Words   == Letters \cup Digits \cup {"_"}

IsLower(c) == c \in Lowers
IsUpper(c) == c \in Uppers
IsLetter(c) == c \in Letters
IsDigit(c) == c \in Digits
\* \s of the re module, on the characters the model uses
IsSpace(c) == c \in Spaces
\* \w of the re module: letters, digits and the underscore
IsWord(c) == c \in Words

\* str.lower() on one character
LowerChar(c) ==
    IF IsUpper(c)
    THEN LowerChars[CHOOSE k \in DOMAIN UpperChars : UpperChars[k] = c]
    ELSE c

DigitVal(c) == (CHOOSE k \in DOMAIN DigitChars : DigitChars[k] = c) - 1

\* int(s) for a string of digits
RECURSIVE ToInt(_)
ToInt(s) ==
    IF s = <<>> THEN 0
    ELSE 10 * ToInt(SubSeq(s, 1, Len(s) - 1)) + DigitVal(s[Len(s)])

\* whether the literal string lit stands in t at position p
LitAt(t, p, lit) ==
    /\ p >= 1
    /\ p + Len(lit) - 1 <= Len(t)
    /\ \A k \in DOMAIN lit : t[p + k - 1] = lit[k]

Max(S) == CHOOSE x \in S : \A y \in S : y <= x
Min(S) == CHOOSE x \in S : \A y \in S : x <= y

(***************************************************************************)
(* normalize_text: lower-case, collapse every whitespace run to one space, *)
(* strip both ends.                                                        *)
(***************************************************************************)
RECURSIVE CollapseSpaces(_, _)
CollapseSpaces(s, k) ==
    IF k > Len(s) THEN <<>>
    ELSE IF IsSpace(s[k])
         THEN IF k > 1 /\ IsSpace(s[k - 1])
              THEN CollapseSpaces(s, k + 1)
              ELSE <<" ">> \o CollapseSpaces(s, k + 1)
         ELSE <<s[k]>> \o CollapseSpaces(s, k + 1)

\* str.strip()
Strip(s) ==
    LET keep == {k \in DOMAIN s : ~IsSpace(s[k])}
    IN  IF keep = {} THEN <<>> ELSE SubSeq(s, Min(keep), Max(keep))

normalize_text(s) ==
    Strip(CollapseSpaces([k \in DOMAIN s |-> LowerChar(s[k])], 1))

(***************************************************************************)
(* ResumeParser.SKILL_DB and extract_skills.                               *)
(***************************************************************************)
SKILL_DB ==
    << <<"p", "y", "t", "h", "o", "n">>,
       <<"j", "a", "v", "a">>,
       <<"c", "+", "+">>,
       <<"s", "q", "l">>,
       <<"a", "w", "s">>,
       <<"d", "o", "c", "k", "e", "r">>,
       <<"k", "u", "b", "e", "r", "n", "e", "t", "e", "s">>,
       <<"r", "e", "a", "c", "t">>,
       <<"a", "n", "g", "u", "l", "a", "r">>,
       <<"d", "j", "a", "n", "g", "o">>,
       <<"f", "l", "a", "s", "k">>,
       <<"m", "a", "c", "h", "i", "n", "e", " ", "l", "e", "a", "r", "n", "i", "n", "g">>,
       <<"d", "a", "t", "a", " ", "a", "n", "a", "l", "y", "s", "i", "s">>,
       <<"c", "o", "m", "m", "u", "n", "i", "c", "a", "t", "i", "o", "n">>,
       <<"p", "r", "o", "j", "e", "c", "t", " ", "m", "a", "n", "a", "g", "e", "m", "e", "n", "t">>,
       <<"g", "i", "t">>,
       <<"l", "i", "n", "u", "x">>,
       <<"h", "t", "m", "l">>,
       <<"c", "s", "s">>,
       <<"j", "a", "v", "a", "s", "c", "r", "i", "p", "t">>,
       <<"t", "y", "p", "e", "s", "c", "r", "i", "p", "t">>,
       <<"n", "o", "d", "e", ".", "j", "s">>,
       <<"p", "a", "n", "d", "a", "s">>,
       <<"n", "u", "m", "p", "y">> >>

\* whether position k of t holds a word character (False outside the string)
WordAt(t, k) == k \in DOMAIN t /\ IsWord(t[k])

\* \b between positions p-1 and p
WordBoundary(t, p) == WordAt(t, p - 1) # WordAt(t, p)

\* re.search(r'\b' + re.escape(skill) + r'\b', t): a literal between two \b
SkillSearch(skill, t) ==
    \E p \in DOMAIN t :
        /\ LitAt(t, p, skill)
        /\ WordBoundary(t, p)
        /\ WordBoundary(t, p + Len(skill))

\* the set behind list(set(found))
FoundSkills(s) ==
    LET text_lower == normalize_text(s)
    IN  {SKILL_DB[k] : k \in {j \in DOMAIN SKILL_DB : SkillSearch(SKILL_DB[j], text_lower)}}

\* list(S) of a Python set of strings: its elements once each, in an order
\* that the hash seed of the process decides
ListsOf(S) ==
    {f \in [1..Cardinality(S) -> S] : \A a, b \in 1..Cardinality(S) : a # b => f[a] # f[b]}

\* the lists extract_skills may return
extract_skills(s) == ListsOf(FoundSkills(s))

(***************************************************************************)
(* Texts: concatenations of pieces.                                        *)
(***************************************************************************)
RECURSIVE Flatten(_)
Flatten(ps) == IF ps = <<>> THEN <<>> ELSE Head(ps) \o Flatten(Tail(ps))

PieceSeqs(pieces, n) == UNION {[1..k -> pieces] : k \in 0..n}

\* longest run of digits in s
DigitRunEndingAt(s, k) ==
    IF ~IsDigit(s[k]) THEN 0
    ELSE k - Max({j \in 0..(k - 1) : j = 0 \/ ~IsDigit(s[j])})

LongestDigitRun(s) ==
    IF s = <<>> THEN 0 ELSE Max({DigitRunEndingAt(s, k) : k \in DOMAIN s})

SkillPieces ==
    { <<"j", "a", "v", "a">>,
      <<"s", "c", "r", "i", "p", "t">>,
      <<"c", "+", "+">>,
      <<"n", "o", "d", "e", ".", "j", "s">>,
      <<"M", "a", "c", "h", "i", "n", "e">>,
      <<"l", "e", "a", "r", "n", "i", "n", "g">>,
      <<"S", "Q", "L">>,
      <<" ">>, <<"\n">>, <<",">>, <<"+">>, <<"1">>, <<"_">>, <<"x">> }

(***************************************************************************)
(* Specification of extract_skills on its own.                             *)
(***************************************************************************)
Idle ==
    /\ req_skills = None /\ min_exp = None
    /\ candidate = None /\ candidate2 = None /\ outcome2 = None
    /\ uploaded_files = None /\ i = None /\ results = None
    /\ errors = None /\ df = None

InitSkills ==
    /\ pc = "start"
    /\ \E ps \in PieceSeqs(SkillPieces, MaxPieces) : text = Flatten(ps)
    /\ outcome = None
    /\ Idle

ExtractSkills ==
    /\ pc = "start"
    /\ \E found \in extract_skills(text) : outcome' = found
    /\ pc' = "done"
    /\ UNCHANGED << text, req_skills, min_exp, candidate, candidate2, outcome2,
                    uploaded_files, i, results, errors, df >>

NextSkills == ExtractSkills

SpecSkills == InitSkills /\ [][NextSkills]_vars

\* v stands in t with no word character directly before it and none directly
\* after it
StandsAlone(v, t) ==
    \E p \in DOMAIN t :
        /\ LitAt(t, p, v)
        /\ ~WordAt(t, p - 1)
        /\ ~WordAt(t, p + Len(v))

\* C7: a vocabulary entry is reported exactly when it stands in the normalized
\* text as a standalone word or phrase, a token boundary on both sides (so
\* "c++" followed by a space or by the end of the text is reported), and
\* nothing outside the vocabulary is reported.
C7_StandaloneExactly ==
    pc = "done" =>
        /\ Range(outcome) \subseteq Range(SKILL_DB)
        /\ \A v \in Range(SKILL_DB) :
              v \in Range(outcome) <=> StandsAlone(v, normalize_text(text))

(***************************************************************************)
(* ResumeParser.extract_experience.                                        *)
(***************************************************************************)
AllDigits(t, a, b) == \A k \in a..b : k \in DOMAIN t /\ IsDigit(t[k])
AllSpaces(t, a, b) == \A k \in a..b : k \in DOMAIN t /\ IsSpace(t[k])

YearLit == <<"y", "e", "a", "r">>

\* The ways r'(\d+)\+?\s*years?' matches at position s, as <<d, e>>: the
\* digits are t[s..d] and the match ends before position e.
NumYearsMatches(t, s) ==
    UNION { UNION { UNION { {<<d, b + 4>>}
                            \cup (IF LitAt(t, b + 4, <<"s">>) THEN {<<d, b + 5>>} ELSE {}) :
                            b \in {x \in a..(Len(t) + 1) :
                                      AllSpaces(t, a, x - 1) /\ LitAt(t, x, YearLit)} } :
                    a \in {d + 1} \cup (IF LitAt(t, d + 1, <<"+">>) THEN {d + 2} ELSE {}) } :
            d \in {x \in s..Len(t) : AllDigits(t, s, x)} }

\* the match the greedy quantifiers settle on: most digits, then longest
NumYearsMatch(t, s) ==
    LET ms == NumYearsMatches(t, s)
        d  == Max({m[1] : m \in ms})
    IN  <<d, Max({m[2] : m \in {x \in ms : x[1] = d}})>>

\* re.findall(r'(\d+)\+?\s*years?', t) from position pos on: the captured
\* digit strings of the leftmost non-overlapping matches
RECURSIVE FindAllNumYears(_, _)
FindAllNumYears(t, pos) ==
    IF pos > Len(t) THEN <<>>
    ELSE IF NumYearsMatches(t, pos) # {}
         THEN LET m == NumYearsMatch(t, pos)
              IN  <<SubSeq(t, pos, m[1])>> \o FindAllNumYears(t, m[2])
         ELSE FindAllNumYears(t, pos + 1)

\* r'(20\d{2})' matches at position s
CalYearAt(t, s) == LitAt(t, s, <<"2", "0">>) /\ AllDigits(t, s + 2, s + 3)

\* re.findall(r'(20\d{2})', t) from position pos on
RECURSIVE FindAllCalYears(_, _)
FindAllCalYears(t, pos) ==
    IF pos > Len(t) THEN <<>>
    ELSE IF CalYearAt(t, pos)
         THEN <<SubSeq(t, pos, pos + 3)>> \o FindAllCalYears(t, pos + 4)
         ELSE FindAllCalYears(t, pos + 1)

IntsOf(strs) == {ToInt(strs[k]) : k \in DOMAIN strs}

extract_experience_calendar_first(s) ==
    LET text_lower == normalize_text(s)
        matches    == FindAllNumYears(text_lower, 1)
        years      == FindAllCalYears(text_lower, 1)
    IN  IF Len(years) >= 2
        THEN Max(IntsOf(years)) - Min(IntsOf(years))
        ELSE IF matches # <<>> THEN Max(IntsOf(matches)) ELSE 0

extract_experience(s) ==
    LET text_lower == normalize_text(s)
        matches    == FindAllNumYears(text_lower, 1)
        years      == FindAllCalYears(text_lower, 1)
    IN  IF matches # <<>>
        THEN Max(IntsOf(matches))
        ELSE IF Len(years) >= 2
             THEN Max(IntsOf(years)) - Min(IntsOf(years))
             ELSE 0

ExperiencePieces ==
    { <<"5", " ", "y", "e", "a", "r", "s">>,
      <<"1", "2", "+", " ", "Y", "e", "a", "r", "s">>,
      <<"2", "0", "1", "8">>,
      <<" ", "-", " ", "2", "0", "2", "3">>,
      <<"2", "0">>,
      <<"7">>,
      <<"y", "e", "a", "r">>,
      <<" ">>, <<"+">>, <<"x">> }

(***************************************************************************)
(* Specification of extract_experience on its own.                         *)
(***************************************************************************)
InitExperience ==
    /\ pc = "start"
    /\ \E ps \in PieceSeqs(ExperiencePieces, MaxPieces) : text = Flatten(ps)
    /\ LongestDigitRun(text) <= MaxDigits
    /\ outcome = None
    /\ Idle

ExtractExperience ==
    /\ pc = "start"
    /\ outcome' = extract_experience(text)
    /\ pc' = "done"
    /\ UNCHANGED << text, req_skills, min_exp, candidate, candidate2, outcome2,
                    uploaded_files, i, results, errors, df >>

NextExperience == ExtractExperience

SpecExperience == InitExperience /\ [][NextExperience]_vars

\* whether "[+][spaces]year" stands in t from position p on
YearWordFollows(t, p) ==
    \E a \in {p, p + 1} :
        /\ a = p + 1 => LitAt(t, p, <<"+">>)
        /\ \E b \in a..(Len(t) + 1) :
              AllSpaces(t, a, b - 1) /\ LitAt(t, b, YearLit)

\* the integers of all "<digits>[+][spaces]year" occurrences in t, wherever
\* they start
ExplicitYears(t) ==
    {ToInt(SubSeq(t, sd[1], sd[2])) :
        sd \in {x \in (DOMAIN t) \X (DOMAIN t) :
                   /\ x[1] <= x[2]
                   /\ AllDigits(t, x[1], x[2])
                   /\ YearWordFollows(t, x[2] + 1)}}

\* the start positions of the 4-digit years 20dd of t, read from left to
\* right, a year never sharing digits with the one before it
CalendarYearStarts(t) ==
    LET Taken[p \in 0..Len(t)] ==
            IF p = 0 THEN {}
            ELSE IF CalYearAt(t, p) /\ \A q \in Taken[p - 1] : q + 4 <= p
                 THEN Taken[p - 1] \cup {p}
                 ELSE Taken[p - 1]
    IN  Taken[Len(t)]

CalendarYears(t) == {ToInt(SubSeq(t, p, p + 3)) : p \in CalendarYearStarts(t)}

\* C8: an explicit "<digits>[+] year(s)" statement decides the result (the
\* largest such integer), whatever calendar years the text holds; without one,
\* two or more calendar years 20dd give max - min; otherwise 0. The result is
\* never negative.
C8_ExperiencePrecedence ==
    pc = "done" =>
        LET t == normalize_text(text)
        IN  /\ outcome >= 0
            /\ outcome =
                 IF ExplicitYears(t) # {} THEN Max(ExplicitYears(t))
                 ELSE IF Cardinality(CalendarYearStarts(t)) >= 2
                      THEN Max(CalendarYears(t)) - Min(CalendarYears(t))
                      ELSE 0

\* an explicit statement and a span of calendar years disagree, and the
\* explicit statement has decided
C8_Witness ==
    /\ pc = "done"
    /\ ExplicitYears(normalize_text(text)) # {}
    /\ Cardinality(CalendarYears(normalize_text(text))) >= 2
    /\ outcome = Max(ExplicitYears(normalize_text(text)))
    /\ outcome # Max(CalendarYears(normalize_text(text)))
                   - Min(CalendarYears(normalize_text(text)))

(***************************************************************************)
(* JobMatcher.calculate_score.  A float is the exact fraction <<num, den>> *)
(* of the value it approximates.  round(x, 1) returns a nearest tenth; at  *)
(* an exact decimal tie the binary rounding error of x decides the         *)
(* direction, so the direction is an input `up` of the rounding here.      *)
(***************************************************************************)
Abs(x) == IF x < 0 THEN -x ELSE x

\* the slider of the sidebar: min_exp ranges over 0..SliderMax
SliderMax == 15

\* weights of final_score, in tenths
SkillWeight == 7
ExpWeight == 3

\* round(x, 1) in tenths, for x = <<num, den>> >= 0
Round1(x, up) ==
    LET n == 10 * x[1]
        q == n \div x[2]
        r == n - q * x[2]
    IN  IF 2 * r > x[2] THEN q + 1
        ELSE IF 2 * r < x[2] THEN q
        ELSE IF up THEN q + 1 ELSE q

SkillScoreOverCandidate(candidate_skills, req) ==
    IF req = {} THEN <<100, 1>>
    ELSE IF candidate_skills = {} THEN <<0, 1>>
    ELSE <<Cardinality(candidate_skills \cap req) * 100, Cardinality(candidate_skills)>>

\* skill_score
SkillScore(candidate_skills, req) ==
    IF req = {} THEN <<100, 1>>
    ELSE <<Cardinality(candidate_skills \cap req) * 100, Cardinality(req)>>

ExpScoreUncapped(candidate_exp, min) ==
    IF min > 0 THEN <<candidate_exp * 100, min>> ELSE <<100, 1>>

\* exp_score
ExpScore(candidate_exp, min) ==
    IF candidate_exp >= min THEN <<100, 1>>
    ELSE IF min > 0 THEN <<candidate_exp * 100, min>> ELSE <<100, 1>>

FinalScoreSwapped(skill_score, exp_score) ==
    << ExpWeight * skill_score[1] * exp_score[2] + SkillWeight * exp_score[1] * skill_score[2],
       10 * skill_score[2] * exp_score[2] >>

\* final_score = (skill_score * 0.7) + (exp_score * 0.3)
FinalScore(skill_score, exp_score) ==
    << SkillWeight * skill_score[1] * exp_score[2] + ExpWeight * exp_score[1] * skill_score[2],
       10 * skill_score[2] * exp_score[2] >>

\* the lists `missing` may be
MissingLists(candidate_skills, req) ==
    IF req = {} THEN {<<>>} ELSE ListsOf(req \ candidate_skills)

SameValue(x, y) == x[1] * y[2] = y[1] * x[2]

\* the results calculate_score may return for a candidate, with the rounding
\* directions upF (final score) and upS (skill percentage) at exact ties
calculate_score(cand, req, min, upF, upS) ==
    LET candidate_skills == Range(cand.skills)
        skill_score      == SkillScore(candidate_skills, req)
        exp_score        == ExpScore(cand.years_experience, min)
        final_score      == FinalScore(skill_score, exp_score)
    IN  {[score |-> Round1(final_score, upF),
          missing |-> m,
          skill_percent |-> Round1(skill_score, upS)] :
            m \in MissingLists(candidate_skills, req)}

\* strings of the scoring inputs
Python == <<"p", "y", "t", "h", "o", "n">>
Sql    == <<"s", "q", "l">>
Aws    == <<"a", "w", "s">>
Docker == <<"d", "o", "c", "k", "e", "r">>

CandidateSkillSets == SUBSET {Python, Sql, Aws}
RequiredSkillSets  == SUBSET {Python, Sql, Aws, Docker}
MonoRequiredSkillSets == SUBSET {Python, Sql, Docker}

(***************************************************************************)
(* Specification of calculate_score on its own: one candidate record and   *)
(* one requirement profile.                                                *)
(***************************************************************************)
InitScore ==
    /\ pc = "start"
    /\ req_skills \in RequiredSkillSets
    /\ min_exp \in 0..SliderMax
    /\ \E S \in CandidateSkillSets, y \in 0..MaxYears :
         \E l \in ListsOf(S) :
            candidate = [skills |-> l, years_experience |-> y]
    /\ outcome = None
    /\ text = None /\ candidate2 = None /\ outcome2 = None
    /\ uploaded_files = None /\ i = None /\ results = None
    /\ errors = None /\ df = None

CalculateScore ==
    /\ pc = "start"
    /\ \E upF, upS \in BOOLEAN :
         \E r \in calculate_score(candidate, req_skills, min_exp, upF, upS) :
            outcome' = r
    /\ pc' = "done"
    /\ UNCHANGED << text, req_skills, min_exp, candidate, candidate2, outcome2,
                    uploaded_files, i, results, errors, df >>

NextScore == CalculateScore

SpecScore == InitScore /\ [][NextScore]_vars

\* f tenths is a nearest tenth of n/d
NearestTenth(f, n, d) == 2 * Abs(f * d - 10 * n) <= 10 * d

C4_ScoreRange ==
    pc = "done" =>
        /\ 0 <= outcome.score /\ outcome.score <= 1000
        /\ (req_skills = {} /\ min_exp = 0) => outcome.score = 1000

\* Scenario B (nothing required, a candidate with no skill and no experience),
\* and a candidate whose experience exceeds the minimum
C4_Witness ==
    /\ pc = "done"
    /\ req_skills = {} /\ min_exp = 0
    /\ candidate.skills = <<>> /\ candidate.years_experience = 0
    /\ outcome.score = 1000

C4_WitnessOverqualified ==
    /\ pc = "done"
    /\ min_exp > 0 /\ candidate.years_experience > min_exp
    /\ req_skills # {} /\ req_skills \subseteq Range(candidate.skills)
    /\ outcome.score = 1000

(***************************************************************************)
(* Specification of calculate_score on two candidates under one profile:   *)
(* the second has at least the experience of the first with the same       *)
(* skills, or the same experience with at least its overlap.  round is a   *)
(* function of its argument: equal unrounded scores round the same way.    *)
(***************************************************************************)
SomeList(S) == CHOOSE l \in ListsOf(S) : TRUE

Dominated(a, b, req) ==
    \/ /\ Range(a.skills) = Range(b.skills)
       /\ a.years_experience <= b.years_experience
    \/ /\ a.years_experience = b.years_experience
       /\ (Range(a.skills) \cap req) \subseteq (Range(b.skills) \cap req)

InitMono ==
    /\ pc = "start"
    /\ req_skills \in MonoRequiredSkillSets
    /\ min_exp \in 0..SliderMax
    /\ \E S1, S2 \in CandidateSkillSets, y1, y2 \in 0..MaxYears :
         /\ candidate = [skills |-> SomeList(S1), years_experience |-> y1]
         /\ candidate2 = [skills |-> SomeList(S2), years_experience |-> y2]
    /\ Dominated(candidate, candidate2, req_skills)
    /\ outcome = None /\ outcome2 = None
    /\ text = None
    /\ uploaded_files = None /\ i = None /\ results = None
    /\ errors = None /\ df = None

CalculateBoth ==
    /\ pc = "start"
    /\ \E upF1, upF2, upS1, upS2 \in BOOLEAN :
         /\ ( /\ SameValue(SkillScore(Range(candidate.skills), req_skills),
                           SkillScore(Range(candidate2.skills), req_skills))
              /\ SameValue(ExpScore(candidate.years_experience, min_exp),
                           ExpScore(candidate2.years_experience, min_exp)) )
            => upF1 = upF2
         /\ outcome' \in calculate_score(candidate, req_skills, min_exp, upF1, upS1)
         /\ outcome2' \in calculate_score(candidate2, req_skills, min_exp, upF2, upS2)
    /\ pc' = "done"
    /\ UNCHANGED << text, req_skills, min_exp, candidate, candidate2,
                    uploaded_files, i, results, errors, df >>

NextMono == CalculateBoth

SpecMono == InitMono /\ [][NextMono]_vars

\* C5: with the skills fixed, more experience never lowers the final score;
\* with the experience fixed, a larger overlap with the required skills never
\* lowers it.
C5_Monotone ==
    pc = "done" =>
        /\ ( /\ Range(candidate.skills) = Range(candidate2.skills)
             /\ candidate.years_experience <= candidate2.years_experience )
           => outcome.score <= outcome2.score
        /\ ( /\ candidate.years_experience = candidate2.years_experience
             /\ (Range(candidate.skills) \cap req_skills)
                    \subseteq (Range(candidate2.skills) \cap req_skills) )
           => outcome.score <= outcome2.score

\* more experience below the minimum raises the score
C5_Witness ==
    /\ pc = "done"
    /\ Range(candidate.skills) = Range(candidate2.skills)
    /\ candidate.years_experience < candidate2.years_experience
    /\ candidate2.years_experience < min_exp
    /\ outcome.score < outcome2.score

\* a strictly larger overlap raises the score
C5_WitnessOverlap ==
    /\ pc = "done"
    /\ candidate.years_experience = candidate2.years_experience
    /\ (Range(candidate.skills) \cap req_skills) # (Range(candidate2.skills) \cap req_skills)
    /\ (Range(candidate.skills) \cap req_skills)
           \subseteq (Range(candidate2.skills) \cap req_skills)
    /\ outcome.score < outcome2.score

(***************************************************************************)
(* ResumeParser.extract_name, extract_email and parse.  extract_phone is   *)
(* left out: no result row reads the phone.                                *)
(***************************************************************************)
Unknown  == <<"U", "n", "k", "n", "o", "w", "n">>
NotFound == <<"N", "o", "t", " ", "F", "o", "u", "n", "d">>

\* text.split("\n")
RECURSIVE SplitLines(_)
SplitLines(s) ==
    LET nl == {k \in DOMAIN s : s[k] = "\n"}
    IN  IF nl = {} THEN <<s>>
        ELSE <<SubSeq(s, 1, Min(nl) - 1)>> \o SplitLines(SubSeq(s, Min(nl) + 1, Len(s)))

\* len(line.split()): the number of whitespace-separated tokens
TokenCount(line) ==
    Cardinality({k \in DOMAIN line :
                    ~IsSpace(line[k]) /\ (k = 1 \/ IsSpace(line[k - 1]))})

extract_name(s) ==
    LET all   == SplitLines(s)
        lines == SelectSeq([k \in DOMAIN all |-> Strip(all[k])], LAMBDA l : l # <<>>)
    IN  IF lines # <<>> /\ TokenCount(lines[1]) <= 4 THEN lines[1] ELSE Unknown

IsLocalChar(c)  == IsLetter(c) \/ IsDigit(c) \/ c \in {".", "_", "%", "+", "-"}
IsDomainChar(c) == IsLetter(c) \/ IsDigit(c) \/ c \in {".", "-"}

\* The ways r'[a-zA-Z0-9._%+-]+@[a-zA-Z0-9.-]+\.[a-zA-Z]{2,}' matches at
\* position s, as <<p, e>>: p is the dot before the last label, e the last
\* position of the match.
EmailMatches(t, s) ==
    UNION { UNION { {<<p, e>> : e \in {x \in (p + 2)..Len(t) :
                                         \A k \in (p + 1)..x : IsLetter(t[k])}} :
                    p \in {x \in (a + 2)..Len(t) :
                              /\ t[x] = "."
                              /\ \A k \in (a + 1)..(x - 1) : IsDomainChar(t[k])} } :
            a \in {x \in (s + 1)..Len(t) :
                      /\ t[x] = "@"
                      /\ \A k \in s..(x - 1) : IsLocalChar(t[k])} }

\* re.search: the leftmost start, the greedy domain, the greedy last label
extract_email(t) ==
    LET starts == {s \in DOMAIN t : IsLocalChar(t[s]) /\ EmailMatches(t, s) # {}}
    IN  IF starts = {} THEN NotFound
        ELSE LET s  == Min(starts)
                 ms == EmailMatches(t, s)
                 p  == Max({m[1] : m \in ms})
                 e  == Max({m[2] : m \in {x \in ms : x[1] = p}})
             IN  SubSeq(t, s, e)

\* the dicts parse may return: the order of "skills" is that of a set
parse(t) ==
    {[name |-> extract_name(t),
      email |-> extract_email(t),
      skills |-> sk,
      years_experience |-> extract_experience(t),
      raw_text |-> t] : sk \in extract_skills(t)}

(***************************************************************************)
(* ResumeParser.extract_text.  An uploaded file is its extension, its      *)
(* parts in document order (the pages of a PDF, the paragraphs of a DOCX,  *)
(* the whole decoded content of a TXT) and fails_after: NeverFails when    *)
(* reading it raises nothing, else the number of parts read before the     *)
(* exception (0: opening or decoding it raises).                           *)
(***************************************************************************)
NeverFails == -1

RECURSIVE PdfText(_)
PdfText(pages) ==
    IF pages = <<>> THEN <<>>
    ELSE (IF Head(pages) # <<>> THEN Head(pages) \o <<"\n">> ELSE <<>>)
         \o PdfText(Tail(pages))

RECURSIVE DocxText(_)
DocxText(paras) ==
    IF paras = <<>> THEN <<>>
    ELSE Head(paras) \o <<"\n">> \o DocxText(Tail(paras))

PartsRead(file) ==
    IF file.fails_after = NeverFails THEN file.parts
    ELSE SubSeq(file.parts, 1, file.fails_after)

\* whether the try block raises (and st.error reports the file)
Raises(file) == file.ext \in {".pdf", ".docx", ".txt"} /\ file.fails_after # NeverFails

\* the text returned
extract_text(file) ==
    IF file.ext = ".pdf" THEN PdfText(PartsRead(file))
    ELSE IF file.ext = ".docx" THEN DocxText(PartsRead(file))
    ELSE IF file.ext = ".txt"
         THEN IF file.fails_after = NeverFails THEN file.parts[1] ELSE <<>>
         ELSE <<>>

(***************************************************************************)
(* The main loop: one result row per uploaded file, then the sort.         *)
(***************************************************************************)
RecommendationStrict(score) ==
    IF score > 850 THEN "Strong Hire"
    ELSE IF score > 600 THEN "Interview"
    ELSE "Reject"

\* recommendation of a score in tenths
Recommendation(score) ==
    IF score >= 850 THEN "Strong Hire"
    ELSE IF score >= 600 THEN "Interview"
    ELSE "Reject"

\* ", ".join(list)
RECURSIVE Join(_)
Join(list) ==
    IF list = <<>> THEN <<>>
    ELSE IF Len(list) = 1 THEN list[1]
    ELSE list[1] \o <<",", " ">> \o Join(Tail(list))

Row(cand, r) ==
    [Name           |-> cand.name,
     Score          |-> r.score,
     SkillMatch     |-> r.skill_percent,
     Experience     |-> cand.years_experience,
     Recommendation |-> Recommendation(r.score),
     Email          |-> cand.email,
     MissingSkills  |-> Join(r.missing),
     MatchedSkills  |-> Join(cand.skills)]

IndexOrders(n) == {f \in [1..n -> 1..n] : \A a, b \in 1..n : a # b => f[a] # f[b]}

sort_values_ascending(rows) ==
    {[k \in DOMAIN rows |-> rows[f[k]]] :
        f \in {g \in IndexOrders(Len(rows)) :
                 \A a, b \in DOMAIN rows : a < b => rows[g[a]].Score <= rows[g[b]].Score}}

\* DataFrame(rows).sort_values(by="Score", ascending=False) with the default
\* kind="quicksort", which is not stable: any ordering by descending Score
sort_values(rows) ==
    {[k \in DOMAIN rows |-> rows[f[k]]] :
        f \in {g \in IndexOrders(Len(rows)) :
                 \A a, b \in DOMAIN rows : a < b => rows[g[a]].Score >= rows[g[b]].Score}}

JaneDoe    == <<"J", "a", "n", "e", " ", "D", "o", "e">>
JaneSkills == <<"P", "y", "t", "h", "o", "n", ",", " ", "S", "Q", "L", " ", "6", " ", "y", "e", "a", "r", "s">>
Summary    == <<"S", "e", "n", "i", "o", "r", " ", "e", "n", "g", "i", "n", "e", "e", "r", " ",
                "w", "i", "t", "h", " ", "d", "o", "c", "k", "e", "r", " ", "a", "n", "d", " ",
                "s", "q", "l">>
Span       == <<"2", "0", "1", "8", " ", "-", " ", "2", "0", "2", "3">>
AlText     == <<"A", "l", "\n", "a", "l", "@", "b", ".", "i", "o", " ", "d", "o", "c", "k", "e", "r",
                " ", "5", " ", "y", "e", "a", "r", "s">>

\* the files of a batch
Files ==
    { [ext |-> ".pdf",  parts |-> <<JaneDoe, <<>>, JaneSkills>>, fails_after |-> NeverFails],
      [ext |-> ".pdf",  parts |-> <<JaneDoe, <<>>, JaneSkills>>, fails_after |-> 1],
      [ext |-> ".pdf",  parts |-> <<JaneDoe, <<>>, JaneSkills>>, fails_after |-> 0],
      [ext |-> ".docx", parts |-> <<Summary, <<>>, Span>>,       fails_after |-> NeverFails],
      [ext |-> ".docx", parts |-> <<Summary, <<>>, Span>>,       fails_after |-> 2],
      [ext |-> ".txt",  parts |-> <<AlText>>,                    fails_after |-> NeverFails],
      [ext |-> ".txt",  parts |-> <<AlText>>,                    fails_after |-> 0],
      [ext |-> ".rtf",  parts |-> <<AlText>>,                    fails_after |-> NeverFails] }

\* the requirement profiles of a batch: <<required skills, minimum experience>>
Profiles ==
    { <<{}, 0>>, <<{Python, Sql}, 12>>, <<{Sql, Docker}, 6>> }

InitBatch ==
    /\ pc = "start"
    /\ uploaded_files \in UNION {[1..n -> Files] : n \in 0..MaxFiles}
    /\ \E p \in Profiles : req_skills = p[1] /\ min_exp = p[2]
    /\ i = 0
    /\ results = <<>>
    /\ errors = <<>>
    /\ df = None
    /\ text = None
    /\ candidate = None /\ outcome = None /\ candidate2 = None /\ outcome2 = None

\* `if uploaded_files:` holds: the matcher and the empty result list
Start ==
    /\ pc = "start"
    /\ uploaded_files # <<>>
    /\ pc' = "loop"
    /\ UNCHANGED << text, req_skills, min_exp, candidate, outcome, candidate2, outcome2,
                    uploaded_files, i, results, errors, df >>

\* no file uploaded: st.info and nothing else
NoFiles ==
    /\ pc = "start"
    /\ uploaded_files = <<>>
    /\ pc' = "info"
    /\ UNCHANGED << text, req_skills, min_exp, candidate, outcome, candidate2, outcome2,
                    uploaded_files, i, results, errors, df >>

\* one iteration of `for i, file in enumerate(uploaded_files)`
ProcessFile ==
    /\ pc = "loop"
    /\ i < Len(uploaded_files)
    /\ LET file == uploaded_files[i + 1]
       IN  /\ text' = extract_text(file)
           /\ errors' = IF Raises(file) THEN Append(errors, i + 1) ELSE errors
           /\ \E cand \in parse(extract_text(file)) :
                \E upF, upS \in BOOLEAN :
                  \E r \in calculate_score(cand, req_skills, min_exp, upF, upS) :
                     results' = Append(results, Row(cand, r))
    /\ i' = i + 1
    /\ UNCHANGED << pc, req_skills, min_exp, candidate, outcome, candidate2, outcome2,
                    uploaded_files, df >>

\* after the loop: df = pd.DataFrame(results).sort_values(...)
SortValues ==
    /\ pc = "loop"
    /\ i = Len(uploaded_files)
    /\ df' \in sort_values(results)
    /\ pc' = "done"
    /\ UNCHANGED << text, req_skills, min_exp, candidate, outcome, candidate2, outcome2,
                    uploaded_files, i, results, errors >>

NextBatch == Start \/ NoFiles \/ ProcessFile \/ SortValues

SpecBatch == InitBatch /\ [][NextBatch]_vars

Supported(file) == file.ext \in {".pdf", ".docx", ".txt"}

\* C1: a file whose extraction raised left the empty string as its text, and
\* was reported by st.error.
C1_FailureYieldsEmpty ==
    (pc \in {"loop", "done"} /\ i >= 1 /\ Raises(uploaded_files[i])) =>
        /\ text = <<>>
        /\ i \in Range(errors)

\* C2: the loop ends with one row per uploaded file, and the row of a file that
\* could not be parsed or has an unrecognized extension holds the defaults.
C2_EveryFileARow ==
    pc = "done" =>
        /\ Len(results) = Len(uploaded_files)
        /\ Len(df) = Len(uploaded_files)
        /\ \A k \in DOMAIN uploaded_files :
              (Raises(uploaded_files[k]) \/ ~Supported(uploaded_files[k])) =>
                  /\ results[k].Name = Unknown
                  /\ results[k].Email = NotFound
                  /\ results[k].Experience = 0
                  /\ results[k].MatchedSkills = <<>>

\* C6: the recommendation of every row is decided by its rounded score alone:
\* Strong Hire exactly from 85.0, Interview exactly from 60.0 to below 85.0,
\* Reject exactly below 60.0.
C6_RecommendationBands ==
    results # None =>
        \A k \in DOMAIN results :
            /\ results[k].Recommendation \in {"Strong Hire", "Interview", "Reject"}
            /\ results[k].Recommendation = "Strong Hire" <=> results[k].Score >= 850
            /\ results[k].Recommendation = "Interview"
                  <=> (600 <= results[k].Score /\ results[k].Score < 850)
            /\ results[k].Recommendation = "Reject" <=> results[k].Score < 600

\* a row on the lower bound of the Strong Hire band
C6_Witness ==
    /\ results # None
    /\ \E k \in DOMAIN results :
          results[k].Score = 850 /\ results[k].Recommendation = "Strong Hire"

\* a row on the lower bound of the Interview band
C6_WitnessInterview ==
    /\ results # None
    /\ \E k \in DOMAIN results :
          results[k].Score = 600 /\ results[k].Recommendation = "Interview"

\* df holds the rows of results in the order f
OrderedBy(f) == \A k \in DOMAIN df : df[k] = results[f[k]]

Descending(rows) ==
    \A a, b \in DOMAIN rows : a < b => rows[a].Score >= rows[b].Score

\* C10 as stated: the sorted rows are in descending score order, rows of equal
\* score in upload order.
C10_StableDescending ==
    pc = "done" =>
        /\ Descending(df)
        /\ \E f \in IndexOrders(Len(results)) :
              /\ OrderedBy(f)
              /\ \A a, b \in DOMAIN df :
                    (a < b /\ df[a].Score = df[b].Score) => f[a] < f[b]

\* C10 as amended: the sorted rows are the result rows, each once, in descending
\* score order.
C10_DescendingPermutation ==
    pc = "done" =>
        /\ Descending(df)
        /\ \E f \in IndexOrders(Len(results)) : OrderedBy(f)

\* the sort had to move a row
C10_Witness ==
    /\ pc = "done"
    /\ Len(results) >= 2
    /\ ~Descending(results)
    /\ df # results

(***************************************************************************)
(* Specification of two runs of parse then calculate_score on one text and *)
(* one profile.  Both runs round the same floats, so the second run rounds *)
(* as the first did.                                                       *)
(***************************************************************************)
ParsePieces ==
    { <<"P", "y", "t", "h", "o", "n", " ">>,
      <<"s", "q", "l", " ">>,
      <<"d", "o", "c", "k", "e", "r", " ">>,
      <<"5", " ", "y", "e", "a", "r", "s", " ">>,
      <<"A", "l", "\n">> }

InitTwice ==
    /\ pc = "start"
    /\ \E ps \in PieceSeqs(ParsePieces, MaxPieces) : text = Flatten(ps)
    /\ \E p \in Profiles : req_skills = p[1] /\ min_exp = p[2]
    /\ candidate = None /\ outcome = None /\ candidate2 = None /\ outcome2 = None
    /\ uploaded_files = None /\ i = None /\ results = None
    /\ errors = None /\ df = None

RunFirst ==
    /\ pc = "start"
    /\ \E cand \in parse(text) :
         \E upF, upS \in BOOLEAN :
           \E r \in calculate_score(cand, req_skills, min_exp, upF, upS) :
              candidate' = cand /\ outcome' = r
    /\ pc' = "once"
    /\ UNCHANGED << text, req_skills, min_exp, candidate2, outcome2,
                    uploaded_files, i, results, errors, df >>

RunSecond ==
    /\ pc = "once"
    /\ \E cand \in parse(text) :
         \E upF, upS \in BOOLEAN :
           \E r \in calculate_score(cand, req_skills, min_exp, upF, upS) :
              /\ r.score = outcome.score
              /\ r.skill_percent = outcome.skill_percent
              /\ candidate2' = cand /\ outcome2' = r
    /\ pc' = "done"
    /\ UNCHANGED << text, req_skills, min_exp, candidate, outcome,
                    uploaded_files, i, results, errors, df >>

NextTwice == RunFirst \/ RunSecond

SpecTwice == InitTwice /\ [][NextTwice]_vars

\* C9: two runs on the same text and profile give identical results, the order
\* of the skills list and of the missing-skills list included.
C9_SameResultTwice ==
    pc = "done" => (candidate = candidate2 /\ outcome = outcome2)

====
